---- MODULE Spec2Model ----
(***************************************************************************)
(* Model of src/iot.py: a script that probes an InfluxDB server with       *)
(* retry and backoff, creates or finds its database, writes sine samples   *)
(* in a one-second loop, and prints the stored series at the end of the    *)
(* run or on SIGINT.                                                       *)
(*                                                                         *)
(* The main thread is a program counter pc over the script's statements.   *)
(* The SIGINT handler runs on the main thread: while a handler frame is    *)
(* active (hpc # "none") the interrupted statement is suspended.  The      *)
(* store is the external InfluxDB server: its set of databases and the     *)
(* points of the measurement in the script's database.                     *)
(***************************************************************************)
EXTENDS Integers, Sequences, FiniteSets, TLC

\* ---- bounds of the model ----
MaxArgs == 3        \* positional arguments given on the command line: 0..MaxArgs
MaxCount == 2       \* -n values explored: -1..MaxCount
MaxSamples == 2     \* writes explored in an unbounded (-n 0) run
MaxPrior == 1       \* points already in the series of a pre-existing database
MaxInterrupts == 2  \* SIGINTs delivered to the process in one run
MaxClockSteps == 1  \* times the local wall clock is set back during the run
MaxStepBack == 1    \* time units by which one such step sets the clock back

\* ---- program constants ----
nretries == 5                \* server_check's default number of attempts
client_retries == 5          \* InfluxDBClient(..., retries=5): attempts per request
sleep_interval == 1          \* time.sleep(1) of sensor_data
SysMaxsize == 2147483647     \* sys.maxsize (the value of a 32-bit build)
DbName == "iotdb"            \* env('dbname')
InternalDb == "_internal"    \* a database of the server that is not the script's

VARIABLES
    \* inputs of the run
    nargs,          \* len(args) after option parsing
    envHasDbname,   \* whether the environment supplies dbname
    reset,          \* options.reset
    count,          \* options.num_of_measurements
    \* control
    pc,             \* statement the main thread is at
    hpc,            \* statement the active signal_handler frame is at, or "none"
    handlerInstalled, \* signal.signal(SIGINT, signal_handler) has run
    exitStatus,     \* the process's exit status; -1 while it runs
    exitCause,      \* which statement ended the process; "none" while it runs
    \* server_check locals
    i,              \* loop index of server_check
    waiting_time,   \* server_check's waiting_time
    \* db_connection locals
    create,         \* db_connection's create
    \* sensor_data locals
    num,            \* num_of_measurements after line 115
    k,              \* loop index of sensor_data (its i)
    \* the store
    databases,      \* names of the databases of the server
    current,        \* database selected on the client, or "none"
    series,         \* points of measurement 'sinwave' in DbName, in arrival order
    \* observations
    waits,          \* the time.sleep durations of server_check, in order
    nProbes,        \* requests.get calls
    nList, nCreate, nSwitch, nDelete, nWrites, nQueries, \* store operations issued
    nEchoes,        \* pprint calls of sensor_data
    nHandlerReports, \* get_entries calls made by signal_handler
    listing,        \* the last result of get_entries
    nInterrupts,    \* SIGINTs received
    writesAtInt,    \* nWrites when the first SIGINT arrived, or -1
    intPc,          \* pc when the first SIGINT arrived, or "none"
    databases0,     \* the server's databases before the run
    series0,        \* the series before the run
    \* the client and the clock
    attempt,        \* failed attempts of the client's current request
    now,            \* the local wall clock that datetime.datetime.now() reads
    nClockSteps,    \* times the wall clock was set back during the run
    \* further observations
    data_sent,      \* the data of every completed write_points call, in order
    sd_sleeps,      \* the time.sleep durations of sensor_data, in order
    lastProbe,      \* outcome of the last requests.get, or "none"
    raised          \* a client call has raised an exception into the script

inputVars == <<nargs, envHasDbname, reset, count, databases0, series0>>
ctlVars == <<pc, hpc, handlerInstalled, exitStatus, exitCause>>
localVars == <<i, waiting_time, create, num, k>>
storeVars == <<databases, current, series>>
obsVars == <<waits, nProbes, nList, nCreate, nSwitch, nDelete, nWrites, nQueries,
             nEchoes, nHandlerReports, listing>>
intVars == <<nInterrupts, writesAtInt, intPc>>
extVars == <<attempt, now, nClockSteps, data_sent, sd_sleeps, lastProbe, raised>>
vars == <<inputVars, ctlVars, localVars, storeVars, obsVars, intVars, extVars>>

\* A point of the series: written by this run (run = TRUE, idx = sample index i)
\* or stored before it (run = FALSE).
Point(r, n) == [run |-> r, idx |-> n]

PriorSeries(n) == [j \in 1..n |-> Point(FALSE, j - 1)]

Terminated == exitCause # "none"

\* The main thread executes its own statements: no handler frame is active.
Running == ~Terminated /\ hpc = "none"

\* sys.exit(status) or an uncaught exception: the process ends.
Exit(status, cause) ==
    /\ exitStatus' = status
    /\ exitCause' = cause
    /\ hpc' = "none"

Init ==
    /\ nargs \in 0..MaxArgs
    /\ envHasDbname \in BOOLEAN
    /\ reset \in BOOLEAN
    /\ count \in -1..MaxCount
    /\ \/ databases0 = {InternalDb} /\ series0 = <<>>
       \/ databases0 = {InternalDb, DbName} /\ \E n \in 0..MaxPrior : series0 = PriorSeries(n)
    /\ pc = "env"
    /\ hpc = "none"
    /\ handlerInstalled = FALSE
    /\ exitStatus = -1
    /\ exitCause = "none"
    /\ i = 0 /\ waiting_time = 0 /\ create = FALSE /\ num = 0 /\ k = 0
    /\ databases = databases0 /\ current = "none" /\ series = series0
    /\ waits = <<>> /\ nProbes = 0
    /\ nList = 0 /\ nCreate = 0 /\ nSwitch = 0 /\ nDelete = 0 /\ nWrites = 0 /\ nQueries = 0
    /\ nEchoes = 0 /\ nHandlerReports = 0 /\ listing = <<>>
    /\ nInterrupts = 0 /\ writesAtInt = -1 /\ intPc = "none"
    /\ attempt = 0 /\ now = 0 /\ nClockSteps = 0
    /\ data_sent = <<>> /\ sd_sleeps = <<>> /\ lastProbe = "none" /\ raised = FALSE

\* ---- module level, lines 56-62 ----
\* env('dbname') raises when the variable is missing: uncaught, exit status 1.
read_env ==
    /\ Running /\ pc = "env"
    /\ IF envHasDbname
       THEN pc' = "parse" /\ UNCHANGED <<hpc, exitStatus, exitCause>>
       ELSE Exit(1, "env") /\ UNCHANGED pc
    /\ UNCHANGED extVars
    /\ UNCHANGED <<inputVars, handlerInstalled, localVars, storeVars, obsVars, intVars>>

\* a script that installs the handler before db_connection
parse_args_install_first ==
    /\ ~Terminated /\ hpc = "none" /\ pc = "parse"
    /\ handlerInstalled' = TRUE
    /\ IF nargs # 2
       THEN Exit(1, "usage") /\ UNCHANGED pc
       ELSE pc' = "dc_client" /\ UNCHANGED <<hpc, exitStatus, exitCause>>
    /\ UNCHANGED <<inputVars, localVars, storeVars, obsVars, intVars, extVars>>

\* an argument test that only rejects too few arguments
usage_error_too_few(n) == n < 2

\* ---- __main__, lines 159-164 ----
usage_error(n) == n # 2

parse_args ==
    /\ Running /\ pc = "parse"
    /\ IF usage_error(nargs)
       THEN Exit(1, "usage") /\ UNCHANGED pc
       ELSE pc' = "dc_client" /\ UNCHANGED <<hpc, exitStatus, exitCause>>
    /\ UNCHANGED extVars
    /\ UNCHANGED <<inputVars, handlerInstalled, localVars, storeVars, obsVars, intVars>>

\* a db_connection that lists the databases before it probes the server
db_connection_client_list_first ==
    /\ ~Terminated /\ hpc = "none" /\ pc = "dc_client"
    /\ pc' = "sc_get"
    /\ i' = 0
    /\ waiting_time' = 1
    /\ nList' = nList + 1
    /\ UNCHANGED extVars
    /\ UNCHANGED <<inputVars, hpc, handlerInstalled, exitStatus, exitCause,
                   create, num, k, storeVars, intVars,
                   waits, nProbes, nCreate, nSwitch, nDelete, nWrites, nQueries,
                   nEchoes, nHandlerReports, listing>>

\* ---- db_connection, lines 92-94: the client object is built (no request is
\* sent) and server_check is entered (lines 75-76) ----
db_connection_client ==
    /\ Running /\ pc = "dc_client"
    /\ pc' = "sc_get"
    /\ i' = 0
    /\ waiting_time' = 1
    /\ UNCHANGED extVars
    /\ UNCHANGED <<inputVars, hpc, handlerInstalled, exitStatus, exitCause,
                   create, num, k, storeVars, obsVars, intVars>>

\* ---- server_check, lines 73-87 ----
\* requests.get returned a response: any HTTP status, requests.get does not
\* raise for a status.
Responses == {"response", "response_error_status"}

\* What one requests.get can do: return a response, raise ConnectionError, or
\* raise another exception.
ProbeOutcomes == Responses \cup {"ConnectionError", "other_error"}

\* a backoff that grows by one instead of doubling
next_waiting_time_linear(w) == w + 1

\* line 84
next_waiting_time(w) == w * 2

\* a server_check that treats a response like a failed attempt
probe_next_pc_keeps_waiting(outcome) ==
    IF outcome = "other_error" THEN "raise" ELSE "sc_sleep"

\* a server_check whose except clause catches every exception
probe_next_pc_catch_all(outcome) ==
    IF outcome \in Responses THEN "dc_check_db" ELSE "sc_sleep"

\* lines 78-81: where an attempt's outcome leads: the return of line 80 (then
\* line 95), the except clause of line 81, or out of server_check with the
\* exception
probe_next_pc(outcome) ==
    IF outcome \in Responses THEN "dc_check_db"
    ELSE IF outcome = "ConnectionError" THEN "sc_sleep"
    ELSE "raise"

\* lines 77-81: one attempt; an exception that is not caught ends the process
\* with a traceback and exit status 1
server_check_get ==
    /\ Running /\ pc = "sc_get"
    /\ nProbes' = nProbes + 1
    /\ \E outcome \in ProbeOutcomes :
         /\ lastProbe' = outcome
         /\ IF probe_next_pc(outcome) = "raise"
            THEN Exit(1, "probe_error") /\ UNCHANGED pc
            ELSE pc' = probe_next_pc(outcome) /\ UNCHANGED <<hpc, exitStatus, exitCause>>
    /\ UNCHANGED <<attempt, now, nClockSteps, data_sent, sd_sleeps, raised>>
    /\ UNCHANGED <<inputVars, handlerInstalled, localVars, storeVars, intVars,
                   waits, nList, nCreate, nSwitch, nDelete, nWrites, nQueries,
                   nEchoes, nHandlerReports, listing>>

\* lines 82-85, then the loop test of line 77
server_check_sleep ==
    /\ Running /\ pc = "sc_sleep"
    /\ waits' = Append(waits, waiting_time)
    /\ waiting_time' = next_waiting_time(waiting_time)
    /\ i' = i + 1
    /\ pc' = IF i + 1 < nretries THEN "sc_get" ELSE "sc_fail"
    /\ UNCHANGED extVars
    /\ UNCHANGED <<inputVars, hpc, handlerInstalled, exitStatus, exitCause,
                   create, num, k, storeVars, intVars,
                   nProbes, nList, nCreate, nSwitch, nDelete, nWrites, nQueries,
                   nEchoes, nHandlerReports, listing>>

\* lines 86-87
server_check_fail ==
    /\ Running /\ pc = "sc_fail"
    /\ Exit(1, "unreachable")
    /\ UNCHANGED extVars
    /\ UNCHANGED <<inputVars, pc, handlerInstalled, localVars, storeVars, obsVars, intVars>>

\* a check_db that never finds the database
check_db_never(dbs) == FALSE

\* ---- check_db, lines 65-71 ----
check_db(dbs) == \E db \in dbs : db = DbName

\* ---- db_connection, lines 95-104 ----
\* lines 95-98 and 100-101
db_connection_check_db ==
    /\ Running /\ pc = "dc_check_db"
    /\ nList' = nList + 1
    /\ create' = ~check_db(databases)
    /\ pc' = IF create' THEN "dc_create" ELSE "dc_switch"
    /\ attempt' = 0
    /\ UNCHANGED <<now, nClockSteps, data_sent, sd_sleeps, lastProbe, raised>>
    /\ UNCHANGED <<inputVars, hpc, handlerInstalled, exitStatus, exitCause,
                   i, waiting_time, num, k, storeVars, intVars,
                   waits, nProbes, nCreate, nSwitch, nDelete, nWrites, nQueries,
                   nEchoes, nHandlerReports, listing>>

\* line 99
db_connection_create ==
    /\ Running /\ pc = "dc_create"
    /\ databases' = databases \cup {DbName}
    /\ nCreate' = nCreate + 1
    /\ pc' = "dc_switch"
    /\ attempt' = 0
    /\ UNCHANGED <<now, nClockSteps, data_sent, sd_sleeps, lastProbe, raised>>
    /\ UNCHANGED <<inputVars, hpc, handlerInstalled, exitStatus, exitCause,
                   localVars, current, series, intVars,
                   waits, nProbes, nList, nSwitch, nDelete, nWrites, nQueries,
                   nEchoes, nHandlerReports, listing>>

\* a db_connection without line 102: no database is selected on the client
db_connection_switch_skipped ==
    /\ ~Terminated /\ hpc = "none" /\ pc = "dc_switch"
    /\ pc' = "dc_reset"
    /\ UNCHANGED <<inputVars, hpc, handlerInstalled, exitStatus, exitCause,
                   localVars, storeVars, obsVars, intVars, extVars>>

\* line 102
db_connection_switch ==
    /\ Running /\ pc = "dc_switch"
    /\ current' = DbName
    /\ nSwitch' = nSwitch + 1
    /\ pc' = "dc_reset"
    /\ UNCHANGED extVars
    /\ UNCHANGED <<inputVars, hpc, handlerInstalled, exitStatus, exitCause,
                   localVars, databases, series, intVars,
                   waits, nProbes, nList, nCreate, nDelete, nWrites, nQueries,
                   nEchoes, nHandlerReports, listing>>

\* a reset test that forgets the reset flag
delete_requested_ignoring_reset(c, r) == ~c

\* a reset test that forgets create
delete_requested_ignoring_create(c, r) == r

\* line 103
delete_requested(c, r) == ~c /\ r

\* The points of the series after delete_series on the selected database.
delete_series(cur, s) == IF cur = DbName THEN <<>> ELSE s

\* lines 103-104
db_connection_reset ==
    /\ Running /\ pc = "dc_reset"
    /\ IF delete_requested(create, reset)
       THEN /\ series' = delete_series(current, series)
            /\ nDelete' = nDelete + 1
       ELSE UNCHANGED <<series, nDelete>>
    /\ pc' = "install"
    /\ attempt' = 0
    /\ UNCHANGED <<now, nClockSteps, data_sent, sd_sleeps, lastProbe, raised>>
    /\ UNCHANGED <<inputVars, hpc, handlerInstalled, exitStatus, exitCause,
                   localVars, databases, current, intVars,
                   waits, nProbes, nList, nCreate, nSwitch, nWrites, nQueries,
                   nEchoes, nHandlerReports, listing>>

\* ---- __main__, lines 166-171: the handler is defined and installed ----
install_handler ==
    /\ Running /\ pc = "install"
    /\ handlerInstalled' = TRUE
    /\ pc' = "sd_enter"
    /\ UNCHANGED extVars
    /\ UNCHANGED <<inputVars, hpc, exitStatus, exitCause, localVars, storeVars,
                   obsVars, intVars>>

\* ---- sensor_data, lines 107-131 ----
\* a limit that takes every count below 1 for unbounded
range_limit_nonpositive(n) == IF n <= 0 THEN SysMaxsize ELSE n

\* a limit without the substitution of sys.maxsize for 0
range_limit_plain(n) == n

\* lines 114-115
range_limit(n) == IF n = 0 THEN SysMaxsize ELSE n

\* a sample index that starts at 1
sample_from_one(n) == Point(TRUE, n + 1)

\* lines 117-128: the point of sample index n
sample(n) == Point(TRUE, n)

\* an integer division in place of line 117's true division
tag_of_floor(n) == [num |-> n \div 10, den |-> 1]

\* line 117: x = i/10., the quotient kept as the fraction num/den
tag_of(n) == [num |-> n, den |-> 10]

\* line 118: y = math.sin(x), kept as the term sin(x)
sin_of(x) == [fn |-> "sin", arg |-> x]

\* lines 119-128: the data of sample index n built at wall-clock time t
data_of(n, t) == [time |-> t, tag |-> tag_of(n), field |-> sin_of(tag_of(n))]

\* The points of the series after write_points on the selected database.
write_points(cur, s, p) == IF cur = DbName THEN Append(s, p) ELSE s

\* lines 113-115
sensor_data_enter ==
    /\ Running /\ pc = "sd_enter"
    /\ k' = 0
    /\ num' = range_limit(count)
    /\ pc' = "sd_head"
    /\ UNCHANGED extVars
    /\ UNCHANGED <<inputVars, hpc, handlerInstalled, exitStatus, exitCause,
                   i, waiting_time, create, storeVars, obsVars, intVars>>

\* line 116: the next index of range(num), or the end of the loop and the
\* return to line 175
sensor_data_next ==
    /\ Running /\ pc = "sd_head"
    /\ pc' = IF k < num THEN "sd_write" ELSE "main_report"
    /\ UNCHANGED extVars
    /\ UNCHANGED <<inputVars, hpc, handlerInstalled, exitStatus, exitCause,
                   localVars, storeVars, obsVars, intVars>>

\* lines 117-129; an unbounded run is explored up to MaxSamples writes
sensor_data_write ==
    /\ Running /\ pc = "sd_write"
    /\ count = 0 => k < MaxSamples
    /\ series' = write_points(current, series, sample(k))
    /\ nWrites' = nWrites + 1
    /\ pc' = "sd_echo"
    /\ attempt' = 0
    /\ data_sent' = Append(data_sent, data_of(k, now))
    /\ UNCHANGED <<now, nClockSteps, sd_sleeps, lastProbe, raised>>
    /\ UNCHANGED <<inputVars, hpc, handlerInstalled, exitStatus, exitCause,
                   localVars, databases, current, intVars,
                   waits, nProbes, nList, nCreate, nSwitch, nDelete, nQueries,
                   nEchoes, nHandlerReports, listing>>

\* a loop without the echo of line 130
sensor_data_echo_silent ==
    /\ ~Terminated /\ hpc = "none" /\ pc = "sd_echo"
    /\ pc' = "sd_sleep"
    /\ UNCHANGED <<inputVars, hpc, handlerInstalled, exitStatus, exitCause,
                   localVars, storeVars, obsVars, intVars, extVars>>

\* line 130
sensor_data_echo ==
    /\ Running /\ pc = "sd_echo"
    /\ nEchoes' = nEchoes + 1
    /\ pc' = "sd_sleep"
    /\ UNCHANGED extVars
    /\ UNCHANGED <<inputVars, hpc, handlerInstalled, exitStatus, exitCause,
                   localVars, storeVars, intVars,
                   waits, nProbes, nList, nCreate, nSwitch, nDelete, nWrites, nQueries,
                   nHandlerReports, listing>>

\* line 131, then the loop advances
sensor_data_sleep ==
    /\ Running /\ pc = "sd_sleep"
    /\ k' = k + 1
    /\ pc' = "sd_head"
    /\ sd_sleeps' = Append(sd_sleeps, sleep_interval)
    /\ now' = now + sleep_interval
    /\ UNCHANGED <<attempt, nClockSteps, data_sent, lastProbe, raised>>
    /\ UNCHANGED <<inputVars, hpc, handlerInstalled, exitStatus, exitCause,
                   i, waiting_time, create, num, storeVars, obsVars, intVars>>

\* ---- the local wall clock, read at line 121 ----
\* datetime.datetime.now() is the naive local time: the end of daylight saving
\* time or an adjustment of the system clock sets it back.  The script reads
\* the clock only at line 121, so a step matters only between two reads, that
\* is during the sleep of line 131.
clock_step ==
    /\ Running /\ pc = "sd_sleep"
    /\ nClockSteps < MaxClockSteps
    /\ nClockSteps' = nClockSteps + 1
    /\ \E d \in 1..MaxStepBack : now' = now - d
    /\ UNCHANGED <<attempt, data_sent, sd_sleeps, lastProbe, raised>>
    /\ UNCHANGED <<inputVars, ctlVars, localVars, storeVars, obsVars, intVars>>

\* ---- get_entries, lines 133-137: every point of the measurement in the
\* selected database ----
get_entries(cur, s) == IF cur = DbName THEN s ELSE <<>>

\* ---- __main__, line 175 ----
\* the call of get_entries
main_report ==
    /\ Running /\ pc = "main_report"
    /\ listing' = get_entries(current, series)
    /\ nQueries' = nQueries + 1
    /\ pc' = "main_print"
    /\ attempt' = 0
    /\ UNCHANGED <<now, nClockSteps, data_sent, sd_sleeps, lastProbe, raised>>
    /\ UNCHANGED <<inputVars, hpc, handlerInstalled, exitStatus, exitCause,
                   localVars, storeVars, intVars,
                   waits, nProbes, nList, nCreate, nSwitch, nDelete, nWrites,
                   nEchoes, nHandlerReports>>

\* pprint of the result, then the script ends: exit status 0
main_print ==
    /\ Running /\ pc = "main_print"
    /\ pc' = "done"
    /\ Exit(0, "normal")
    /\ UNCHANGED extVars
    /\ UNCHANGED <<inputVars, handlerInstalled, localVars, storeVars, obsVars, intVars>>

\* ---- SIGINT ----
\* Exit status of a Python process ended by an uncaught KeyboardInterrupt:
\* 1, or 130 where the interpreter re-raises the signal on itself.
KeyboardInterruptStatus == {1, 130}

\* A SIGINT arrives.  With signal_handler installed (line 171) a handler frame
\* starts on top of whatever is running (lines 167-168); before that Python's
\* default handler raises KeyboardInterrupt, which nothing catches.
Interrupt ==
    /\ ~Terminated
    /\ nInterrupts < MaxInterrupts
    /\ nInterrupts' = nInterrupts + 1
    /\ writesAtInt' = IF nInterrupts = 0 THEN nWrites ELSE writesAtInt
    /\ intPc' = IF nInterrupts = 0 THEN pc ELSE intPc
    /\ IF handlerInstalled
       THEN hpc' = "h_query" /\ UNCHANGED <<exitStatus, exitCause>>
       ELSE \E st \in KeyboardInterruptStatus : Exit(st, "KeyboardInterrupt")
    /\ attempt' = 0
    /\ UNCHANGED <<now, nClockSteps, data_sent, sd_sleeps, lastProbe, raised>>
    /\ UNCHANGED <<inputVars, pc, handlerInstalled, localVars, storeVars, obsVars>>

\* ---- signal_handler, lines 166-170 ----
\* line 169: the call of get_entries
signal_handler_report ==
    /\ ~Terminated /\ hpc = "h_query"
    /\ listing' = get_entries(current, series)
    /\ nQueries' = nQueries + 1
    /\ nHandlerReports' = nHandlerReports + 1
    /\ hpc' = "h_exit"
    /\ attempt' = 0
    /\ UNCHANGED <<now, nClockSteps, data_sent, sd_sleeps, lastProbe, raised>>
    /\ UNCHANGED <<inputVars, pc, handlerInstalled, exitStatus, exitCause,
                   localVars, storeVars, intVars,
                   waits, nProbes, nList, nCreate, nSwitch, nDelete, nWrites, nEchoes>>

\* a handler without line 170: it returns and the interrupted statement resumes
signal_handler_return ==
    /\ ~Terminated /\ hpc = "h_exit"
    /\ hpc' = "none"
    /\ UNCHANGED extVars
    /\ UNCHANGED <<inputVars, pc, handlerInstalled, exitStatus, exitCause,
                   localVars, storeVars, obsVars, intVars>>

\* a handler that ends the process with a failure status
signal_handler_exit_failure ==
    /\ ~Terminated /\ hpc = "h_exit"
    /\ exitStatus' = 1 /\ exitCause' = "signal_handler" /\ hpc' = "none"
    /\ UNCHANGED extVars
    /\ UNCHANGED <<inputVars, pc, handlerInstalled, localVars, storeVars, obsVars, intVars>>

\* line 169's pprint, then line 170
signal_handler_exit ==
    /\ ~Terminated /\ hpc = "h_exit"
    /\ Exit(0, "signal_handler")
    /\ UNCHANGED extVars
    /\ UNCHANGED <<inputVars, pc, handlerInstalled, localVars, storeVars, obsVars, intVars>>

\* ---- a request to the store fails ----
\* The statements that send a request to the store: lines 67, 99, 104, 129,
\* 135.
AtStoreRequest ==
    \/ hpc = "h_query"
    \/ /\ hpc = "none"
       /\ \/ pc \in {"dc_check_db", "dc_create", "sd_write", "main_report"}
          \/ pc = "dc_reset" /\ delete_requested(create, reset)

\* line 93, retries=5: the client sends a request again after a connection
\* failure (connection error, timeout) as long as fewer than retries attempts
\* have failed.
may_retry(a) == a + 1 < client_retries

\* An attempt of the current request fails in transport and the client sends
\* the request again; the script's statement is still in its call.
client_retry ==
    /\ ~Terminated /\ AtStoreRequest
    /\ may_retry(attempt)
    /\ attempt' = attempt + 1
    /\ UNCHANGED <<now, nClockSteps, data_sent, sd_sleeps, lastProbe, raised>>
    /\ UNCHANGED <<inputVars, ctlVars, localVars, storeVars, obsVars, intVars>>

\* a script that catches the client's exception and repeats the statement
store_error_retried ==
    /\ ~Terminated /\ AtStoreRequest
    /\ ~raised
    /\ raised' = TRUE
    /\ attempt' = 0
    /\ UNCHANGED <<now, nClockSteps, data_sent, sd_sleeps, lastProbe>>
    /\ UNCHANGED <<inputVars, ctlVars, localVars, storeVars, obsVars, intVars>>

\* The client raises (any error other than a connection failure, or the last
\* allowed attempt failed); no statement of the script catches it: traceback,
\* exit status 1.
store_error ==
    /\ ~Terminated /\ AtStoreRequest
    /\ Exit(1, "store_error")
    /\ raised' = TRUE
    /\ UNCHANGED <<attempt, now, nClockSteps, data_sent, sd_sleeps, lastProbe>>
    /\ UNCHANGED <<inputVars, pc, handlerInstalled, localVars, storeVars, obsVars, intVars>>

Next ==
    \/ read_env
    \/ parse_args
    \/ db_connection_client
    \/ server_check_get
    \/ server_check_sleep
    \/ server_check_fail
    \/ db_connection_check_db
    \/ db_connection_create
    \/ db_connection_switch
    \/ db_connection_reset
    \/ install_handler
    \/ sensor_data_enter
    \/ sensor_data_next
    \/ sensor_data_write
    \/ sensor_data_echo
    \/ sensor_data_sleep
    \/ main_report
    \/ main_print
    \/ Interrupt
    \/ signal_handler_report
    \/ signal_handler_exit
    \/ clock_step
    \/ client_retry
    \/ store_error

Spec == Init /\ [][Next]_vars

\* ======================= properties =======================

StoreRequests == nList + nCreate + nSwitch + nDelete + nWrites + nQueries

\* db_connection has returned.
DbConnectionDone ==
    pc \in {"install", "sd_enter", "sd_head", "sd_write", "sd_echo", "sd_sleep",
            "main_report", "main_print", "done"}

\* sensor_data has returned.
SensorDataReturned == pc \in {"main_report", "main_print", "done"}

\* The first n samples of a run, in order of their indexes.
Samples(n) == [j \in 1..n |-> Point(TRUE, j - 1)]

\* The first SIGINT arrived when signal_handler was installed.  (A SIGINT
\* before that ends the process, so handlerInstalled is its value at arrival.)
InterruptHandled == nInterrupts > 0 /\ handlerInstalled

\* C1: the waits of server_check are 1, 2, 4, 8, 16 in that order; when all
\* attempts have failed with a connection error exactly nretries = 5 attempts
\* and 5 waits have been made, no further attempt follows, and the process
\* ends with exit status 1.
C1_BackoffExhaust ==
    /\ \A j \in 1..Len(waits) : waits[j] = 2 ^ (j - 1)
    /\ Len(waits) <= nretries /\ nProbes <= nretries
    /\ Len(waits) = nretries => (pc = "sc_fail" /\ nProbes = nretries)
    /\ (pc = "sc_fail" \/ exitCause = "unreachable")
         => (nProbes = nretries /\ waits = <<1, 2, 4, 8, 16>>)
    /\ exitCause = "unreachable" => exitStatus = 1

C1_Witness ==
    exitCause = "unreachable" /\ exitStatus = 1 /\ nProbes = 5 /\ waits = <<1, 2, 4, 8, 16>>

\* C3: for a count N > 0 sensor_data never writes more than N samples and has
\* written exactly N when it has returned; for count 0 its limit is
\* sys.maxsize and it has not returned, however many samples were written.
C3_SampleCount ==
    /\ count > 0 => nWrites <= count
    /\ (count > 0 /\ SensorDataReturned) => nWrites = count
    /\ count = 0 => ~SensorDataReturned
    /\ (count = 0 /\ pc \in {"sd_head", "sd_write", "sd_echo", "sd_sleep"}) => k < num

C3_Witness == pc = "main_report" /\ count = MaxCount /\ nWrites = MaxCount /\ nInterrupts = 0

\* C4: once db_connection has returned the database exists and is selected;
\* create_database has been called once if the database was absent before the
\* run and never if it was present; and no step removes a database.
C4_AfterDbConnection ==
    /\ nCreate <= 1
    /\ DbName \in databases0 => nCreate = 0
    /\ DbConnectionDone =>
         /\ DbName \in databases
         /\ current = DbName
         /\ nCreate = (IF DbName \in databases0 THEN 0 ELSE 1)

C4_EnsureDatabase == []C4_AfterDbConnection /\ [][databases \subseteq databases']_vars

C4_Witness == pc = "install" /\ DbName \notin databases0 /\ nCreate = 1 /\ current = DbName

\* C5: for a database that did not exist no delete_series is issued whatever
\* reset is; for a database that existed, with reset, after db_connection the
\* prior points are gone, the series holds exactly the samples written since,
\* and a listing holds only samples of this run.
C5_Reset ==
    /\ DbName \notin databases0 => nDelete = 0
    /\ (DbName \in databases0 /\ reset /\ DbConnectionDone) =>
         /\ nDelete = 1
         /\ series = Samples(nWrites)
         /\ \A j \in 1..Len(series) : series[j].run
         /\ nQueries > 0 => (listing = series /\ \A j \in 1..Len(listing) : listing[j].run)

C5_Witness ==
    /\ DbName \in databases0 /\ reset /\ Len(series0) = MaxPrior
    /\ exitCause = "normal" /\ nWrites = 2 /\ listing = Samples(2)

\* C2 as claimed: wherever in the run a SIGINT arrives, no write follows it
\* and the process ends with the Reporter invoked once by the handler and
\* exit status 0.
C2_AnyPoint ==
    nInterrupts > 0 =>
        /\ nWrites = writesAtInt
        /\ Terminated => (exitStatus = 0 /\ nHandlerReports = 1)

\* C2 amended: after a SIGINT that arrives with signal_handler installed no
\* write follows; the process then ends only through the handler (or through
\* an error of its query), and when it ends through the handler the handler
\* has invoked get_entries (exactly once for a single SIGINT) and the exit
\* status is 0.  A SIGINT before the installation ends the process with a
\* non-zero status and no Reporter call.
C2_AfterInstall ==
    /\ InterruptHandled => nWrites = writesAtInt
    /\ (InterruptHandled /\ Terminated) => exitCause \in {"signal_handler", "store_error"}
    /\ exitCause = "signal_handler" =>
         /\ InterruptHandled
         /\ exitStatus = 0
         /\ nHandlerReports \in 1..nInterrupts
    /\ exitCause = "KeyboardInterrupt" =>
         /\ ~handlerInstalled
         /\ exitStatus # 0
         /\ nQueries = 0

C2_Witness ==
    /\ exitCause = "signal_handler" /\ exitStatus = 0
    /\ nInterrupts = 1 /\ intPc = "sd_sleep" /\ writesAtInt = 2 /\ nWrites = 2
    /\ nHandlerReports = 1

\* C6: a run without SIGINT that starts without the database and has a count
\* N > 0 ends with exactly N samples written, with indexes 0..N-1 in that
\* order, and its final listing is exactly those N records.
C6_BoundedRun ==
    (DbName \notin databases0 /\ count > 0 /\ exitCause = "normal") =>
        /\ nInterrupts = 0
        /\ nWrites = count
        /\ series = Samples(count)
        /\ \A j \in 1..count : series[j].idx = j - 1
        /\ listing = Samples(count)

C6_Witness ==
    /\ DbName \notin databases0 /\ count = MaxCount /\ exitCause = "normal"
    /\ Len(listing) = MaxCount /\ listing[MaxCount] = Point(TRUE, MaxCount - 1)

\* C7: an unbounded run on a freshly created database that is ended by the
\* SIGINT handler has written nothing since the first SIGINT arrived, its
\* listing is exactly the samples written before that SIGINT, and its exit
\* status is 0, wherever in the loop the SIGINT arrived.
C7_InterruptedRun ==
    (count = 0 /\ DbName \notin databases0 /\ exitCause = "signal_handler") =>
        /\ intPc \in {"sd_enter", "sd_head", "sd_write", "sd_echo", "sd_sleep"}
        /\ nWrites = writesAtInt
        /\ listing = Samples(writesAtInt)
        /\ exitStatus = 0

C7_Witness ==
    /\ count = 0 /\ DbName \notin databases0 /\ exitCause = "signal_handler"
    /\ intPc = "sd_echo" /\ writesAtInt = 2 /\ nEchoes = 1 /\ Len(listing) = 2

\* C8 as claimed, for a run that receives at most one SIGINT: the Reporter is
\* never invoked more than once, also when the SIGINT arrives after the
\* generation loop has finished, and a run that ends normally or through the
\* handler has invoked it exactly once.
C8_ReporterOnce ==
    nInterrupts <= 1 =>
        /\ nQueries <= 1
        /\ exitCause \in {"normal", "signal_handler"} => nQueries = 1

\* C9: when server_check has exhausted its attempts no request has been sent
\* to the store, the store is as it was before the run, and the exit status
\* is 1.
C9_NoStoreOnExhaust ==
    (pc = "sc_fail" \/ exitCause = "unreachable") =>
        /\ StoreRequests = 0
        /\ databases = databases0 /\ series = series0 /\ current = "none"
        /\ exitCause = "unreachable" => exitStatus = 1

C9_Witness ==
    /\ exitCause = "unreachable" /\ exitStatus = 1
    /\ DbName \in databases0 /\ Len(series0) = MaxPrior /\ series = series0

\* C10: with a number of positional arguments other than two, or without the
\* dbname configuration value, the run never leaves the startup statements:
\* no probe and no store request is made, and the usage or configuration
\* error ends the process with exit status 1.
C10_UsageError ==
    /\ (nargs # 2 \/ ~envHasDbname) =>
         /\ pc \in {"env", "parse"}
         /\ nProbes = 0 /\ StoreRequests = 0
         /\ Terminated => exitCause \in {"env", "usage", "KeyboardInterrupt"}
    /\ exitCause \in {"env", "usage"} =>
         /\ nargs # 2 \/ ~envHasDbname
         /\ exitStatus = 1

C10_Witness == exitCause = "usage" /\ nargs = MaxArgs /\ envHasDbname /\ exitStatus = 1

\* C11 as claimed: no request to the store is ever attempted again after a
\* failure, and a store operation that fails ends the process with a failure
\* status.
C11_OnlyProbeRetried ==
    /\ attempt = 0
    /\ raised => (Terminated /\ exitCause = "store_error" /\ exitStatus = 1)

\* C11 amended: no statement of the script repeats a store operation, but the
\* client, built with retries=5, sends a request again after a connection
\* failure, up to 5 attempts in all.  Once a client call has raised, the
\* process has ended with exit status 1, so nothing is written after it; each
\* of list, create, switch and delete has completed at most once and every
\* sample index has been written at most once.
C11_RaisedIsFatal ==
    /\ attempt \in 0..(client_retries - 1)
    /\ raised <=> exitCause = "store_error"
    /\ raised => (Terminated /\ exitStatus = 1 /\ hpc = "none")
    /\ nList <= 1 /\ nCreate <= 1 /\ nSwitch <= 1 /\ nDelete <= 1
    /\ nWrites = Len(data_sent)
    /\ \A a, b \in 1..Len(data_sent) : a < b => data_sent[a].tag # data_sent[b].tag

C11_Witness ==
    /\ raised /\ exitCause = "store_error" /\ exitStatus = 1
    /\ pc = "sd_write" /\ attempt = client_retries - 1 /\ nWrites = 2

\* C12 as claimed: the timestamps of successive samples written by one run
\* are strictly increasing.
C12_TimestampsIncrease ==
    \A j \in 1..(Len(data_sent) - 1) : data_sent[j + 1].time > data_sent[j].time

\* C13: the j-th sample written by a run has index j - 1: its tag is the
\* fraction (j - 1)/10 and its field is the sine of that same tag value; the
\* loop index is 0 when sensor_data starts its loop and is always the number
\* of samples written before the current one.
C13_SampleValues ==
    /\ \A j \in 1..Len(data_sent) :
         /\ data_sent[j].tag.den > 0
         /\ data_sent[j].tag.num * 10 = (j - 1) * data_sent[j].tag.den
         /\ data_sent[j].field.fn = "sin"
         /\ data_sent[j].field.arg = data_sent[j].tag
    /\ pc \in {"sd_head", "sd_write"} => k = Len(data_sent)
    /\ pc \in {"sd_echo", "sd_sleep"} => k = Len(data_sent) - 1
    /\ \A j \in 1..Len(series) : series[j].run => series[j].idx = j - 1 - Len(series) + nWrites

C13_Witness ==
    /\ Len(data_sent) = 2
    /\ data_sent[1].tag = [num |-> 0, den |-> 10]
    /\ data_sent[2].tag = [num |-> 1, den |-> 10]
    /\ data_sent[2].field = [fn |-> "sin", arg |-> [num |-> 1, den |-> 10]]

\* C14: each sample is one write_points call, then one echo, then one sleep
\* of 1 time unit, in that order: the echoes are as many as the completed
\* writes or one fewer, the sleeps as many as the echoes or one fewer, and at
\* the natural end of a run with count N > 0 all three are N.
C14_WriteEchoSleep ==
    /\ nEchoes \in {nWrites, nWrites - 1}
    /\ Len(sd_sleeps) \in {nEchoes, nEchoes - 1}
    /\ \A j \in 1..Len(sd_sleeps) : sd_sleeps[j] = 1
    /\ pc \in {"sd_head", "sd_write"} => (nEchoes = nWrites /\ Len(sd_sleeps) = nEchoes)
    /\ pc = "sd_echo" => (nEchoes = nWrites - 1 /\ Len(sd_sleeps) = nEchoes)
    /\ pc = "sd_sleep" => (nEchoes = nWrites /\ Len(sd_sleeps) = nEchoes - 1)
    /\ (count > 0 /\ SensorDataReturned) =>
         (nWrites = count /\ nEchoes = count /\ Len(sd_sleeps) = count)

C14_Witness ==
    /\ count = MaxCount /\ pc = "main_report" /\ hpc = "none"
    /\ nWrites = MaxCount /\ nEchoes = MaxCount /\ sd_sleeps = [j \in 1..MaxCount |-> 1]

\* The main thread is inside server_check.
InServerCheck == pc \in {"sc_get", "sc_sleep", "sc_fail"}

\* C15: when an attempt of server_check gets a response, server_check has
\* returned: with k attempts made (1 <= k <= nretries) exactly k - 1 waits
\* have occurred, of 1, 2, ..., 2^(k-2), none after the successful attempt,
\* and server_check has not ended the process.
C15_FirstSuccess ==
    lastProbe \in Responses =>
        /\ ~InServerCheck
        /\ nProbes \in 1..nretries
        /\ Len(waits) = nProbes - 1
        /\ \A j \in 1..Len(waits) : waits[j] = 2 ^ (j - 1)
        /\ exitCause \notin {"unreachable", "probe_error"}

C15_Witness ==
    /\ pc = "dc_check_db" /\ ~Terminated
    /\ lastProbe = "response" /\ nProbes = 3 /\ waits = <<1, 2>>

\* C20: server_check waits and tries again only after a ConnectionError: an
\* attempt that raises another error is followed by no wait and no attempt,
\* the error ends the process; an attempt that gets a response, whatever its
\* status, ends the probing with no wait.
C20_RetryOnlyOnConnectionError ==
    /\ pc = "sc_sleep" => lastProbe = "ConnectionError"
    /\ Len(waits) \in {nProbes - 1, nProbes}
    /\ Len(waits) = nProbes => (nProbes = 0 \/ lastProbe = "ConnectionError")
    /\ lastProbe = "other_error" =>
         /\ exitCause = "probe_error" /\ exitStatus = 1
         /\ pc = "sc_get"
         /\ Len(waits) = nProbes - 1
    /\ exitCause = "probe_error" => lastProbe = "other_error"
    /\ lastProbe \in Responses => (~InServerCheck /\ Len(waits) = nProbes - 1)

C20_Witness ==
    /\ exitCause = "probe_error" /\ lastProbe = "other_error"
    /\ nProbes = 2 /\ waits = <<1>>

\* C16: the stages run in sequence.  A write_points call completes only after
\* a probe got a response and the database was selected, and only before any
\* query of the Reporter; a delete_series call completes only before the
\* first write; nothing is written or queried before db_connection returns.
C16_WriteStep ==
    nWrites' # nWrites =>
        /\ lastProbe \in Responses
        /\ nSwitch = 1 /\ current = DbName
        /\ nQueries = 0
        /\ DbConnectionDone

C16_StagesInSequence ==
    /\ [](~DbConnectionDone => (nWrites = 0 /\ nQueries = 0))
    /\ [][C16_WriteStep]_vars
    /\ [][nDelete' # nDelete => (nWrites = 0 /\ nWrites' = 0)]_vars
    /\ [][nQueries > 0 => nWrites' = nWrites]_vars

C16_Witness ==
    /\ DbName \in databases0 /\ reset /\ nDelete = 1
    /\ nWrites = 2 /\ nQueries = 1 /\ exitCause = "normal"

\* C17: for a database that existed, without reset, no delete_series is
\* issued and the points stored before the run stay: the series is always the
\* prior points followed by the samples written by this run, and so is the
\* listing printed at the end.
C17_NoResetKeepsPoints ==
    (DbName \in databases0 /\ ~reset) =>
        /\ nDelete = 0
        /\ series = series0 \o Samples(nWrites)
        /\ exitCause \in {"normal", "signal_handler"} => listing = series0 \o Samples(nWrites)

C17_Witness ==
    /\ DbName \in databases0 /\ ~reset /\ Len(series0) = MaxPrior
    /\ exitCause = "normal" /\ nWrites = 2 /\ Len(listing) = MaxPrior + 2

\* The statements before signal_handler is installed.
BeforeInstall == {"env", "parse", "dc_client", "sc_get", "sc_sleep", "sc_fail",
                  "dc_check_db", "dc_create", "dc_switch", "dc_reset", "install"}

\* C18: signal_handler is installed only once db_connection has returned, so
\* a query of the Reporter is only issued with the database existing and
\* selected; a SIGINT that arrives during the probe or the database setup
\* ends the process without any call of the Reporter.
C18_HandlerAfterSetup ==
    /\ handlerInstalled => (DbConnectionDone /\ pc # "install")
    /\ nQueries > 0 => (DbName \in databases /\ current = DbName /\ nSwitch = 1)
    /\ hpc # "none" => handlerInstalled
    /\ (nInterrupts > 0 /\ intPc \in BeforeInstall) =>
         /\ exitCause = "KeyboardInterrupt"
         /\ nQueries = 0 /\ nHandlerReports = 0

C18_Witness ==
    /\ nInterrupts = 1 /\ intPc = "dc_create" /\ exitCause = "KeyboardInterrupt"
    /\ nQueries = 0 /\ lastProbe = "response"

\* C19: with a negative count sensor_data writes nothing and returns at its
\* first loop test; a run that then ends normally has invoked the Reporter
\* once and its exit status is 0.  Only count 0 makes the limit sys.maxsize.
C19_NegativeCount ==
    /\ count < 0 =>
         /\ nWrites = 0 /\ nEchoes = 0 /\ sd_sleeps = <<>>
         /\ pc \notin {"sd_write", "sd_echo", "sd_sleep"}
         /\ exitCause = "normal" => (nQueries = 1 /\ exitStatus = 0 /\ listing = series)
    /\ pc \in {"sd_head", "sd_write", "sd_echo", "sd_sleep"} =>
         (num = SysMaxsize <=> count = 0)

C19_Witness ==
    /\ count = -1 /\ exitCause = "normal" /\ exitStatus = 0
    /\ nWrites = 0 /\ nQueries = 1
====
